---- MODULE Spec2Model ----
(***************************************************************************)
(* State-machine model of streamlit_app.py, the Streamlit front end of the *)
(* trading assistant.  One action is one script run of one browser         *)
(* session (Streamlit reruns the whole script on every widget              *)
(* interaction); initialize_system is split at its writes to os.environ    *)
(* because sessions run in separate threads of one process.                *)
(***************************************************************************)
EXTENDS Integers, Sequences, FiniteSets, TLC

VARIABLES
    system,         \* st.session_state.system, per session
    chat_history,   \* st.session_state.chat_history, per session
    initialized,    \* st.session_state.initialized, per session
    current_query,  \* st.session_state.current_query: <<>> when the key is absent
    pc,             \* where a session's script run stands inside initialize_system
    init_args,      \* (use_qdrant, qdrant_local, collection_name) of the run in pc
    cache,          \* st.cache_resource entries of initialize_system, per argument triple
    constructed,    \* number of TradingAssistantSystem() constructions, per argument triple
    environ,        \* os.environ of the server process
    view            \* what the session's last script run rendered and did

vars == <<system, chat_history, initialized, current_query, pc, init_args,
          cache, constructed, environ, view>>

(***************************************************************************)
(* Bounds of the model.                                                    *)
(***************************************************************************)
MaxHistory == 3

Sessions == {1, 2}

(***************************************************************************)
(* Python values: bool, str, int and None, tagged so that True, "True" and *)
(* 1 stay different values.  A dict is a function from its keys.           *)
(***************************************************************************)
PyBool(b) == <<"bool", b>>
PyStr(s) == <<"str", s>>
PyInt(n) == <<"int", n>>
PyNone == <<"None">>

Truthy(v) ==
    CASE v[1] = "bool" -> v[2]
      [] v[1] = "str" -> v[2] # ""
      [] v[1] = "int" -> v[2] # 0
      [] OTHER -> FALSE

\* str(v), as an f-string formats a value
Format(v) ==
    CASE v[1] = "bool" -> IF v[2] THEN "True" ELSE "False"
      [] v[1] = "str" -> v[2]
      [] v[1] = "int" -> ToString(v[2])
      [] OTHER -> "None"

\* dict.get(key, default)
Get(d, key, default) == IF key \in DOMAIN d THEN d[key] ELSE default


\* the slip: iterating chat_history without reversed()
NotReversed(seq) == seq

\* reversed(seq)
Reverse(seq) == [i \in 1..Len(seq) |-> seq[Len(seq) + 1 - i]]

(***************************************************************************)
(* datetime: a naive local time, as datetime.now() returns it.             *)
(***************************************************************************)
Times ==
    { [date |-> "2026-01-05", time |-> "09:30:00", microsecond |-> m] :
        m \in {0, 250000} }

\* the slip: isoformat(timespec='seconds'), which drops the fraction
isoformat_seconds(dt) == <<dt.date, "T", dt.time>>

\* datetime.isoformat(): the fraction is written only when microsecond is not 0
isoformat(dt) ==
    IF dt.microsecond = 0
    THEN <<dt.date, "T", dt.time>>
    ELSE <<dt.date, "T", dt.time, ".", dt.microsecond>>

\* datetime.strftime('%Y-%m-%d %H:%M:%S'): no sub-second field
strftime(dt) == <<dt.date, " ", dt.time>>

(***************************************************************************)
(* json.dumps of the values a ResponseObject holds: true/false/null        *)
(* literals, quoted strings, numbers; a dict keeps its (string) keys.      *)
(***************************************************************************)
JsonScalar(v) ==
    CASE v[1] = "bool" -> <<"literal", IF v[2] THEN "true" ELSE "false">>
      [] v[1] = "str" -> <<"quoted", v[2]>>
      [] v[1] = "int" -> <<"number", v[2]>>
      [] OTHER -> <<"literal", "null">>

JsonObject(d) == [k \in DOMAIN d |-> JsonScalar(d[k])]

(***************************************************************************)
(* The inputs: what the user types and what the backend returns.           *)
(* A ResponseObject is a dict with optional fields.                        *)
(***************************************************************************)
example_queries == <<"Should I buy Apple stock?", "Analyze Tesla stock">>

\* what the query form can be submitted with: nothing, or a question
Queries == {"", "Analyze Tesla stock"}

\* an optional dict entry: opt is <<>> (no such key) or <<value>>
Entry(key, opt) == IF opt = <<>> THEN <<>> ELSE key :> opt[1]

FailResponses ==
    { Entry("success", s) @@ Entry("message", m) @@ Entry("suggestion", g) :
        s \in {<<>>, <<PyBool(FALSE)>>},
        m \in {<<>>, <<PyStr("Unknown symbol")>>},
        g \in {<<>>, <<PyStr("")>>, <<PyStr("Try a ticker symbol")>>} }

FullResponse(rec) ==
    [ success |-> PyBool(TRUE), recommendation |-> PyStr(rec),
      confidence |-> PyInt(80), position_size |-> PyStr("5%"),
      risk_level |-> PyStr("Medium"), explanation |-> PyStr("Momentum") ]

Without(d, key) == [k \in DOMAIN d \ {key} |-> d[k]]

OkResponses ==
    { FullResponse(rec) : rec \in {"BUY", "SELL", "HOLD"} }
    \cup { Without(FullResponse("BUY"), k) : k \in {"recommendation", "position_size"} }

Responses == FailResponses \cup OkResponses

\* what TradingAssistantSystem() / _create_assistant() can do: return, or raise
\* an exception e with str(e) one of these texts
ErrorTexts == {"", "Qdrant connection refused"}

(***************************************************************************)
(* The response panel of the Chat tab (the body of the try block after     *)
(* the record is stored).                                                  *)
(***************************************************************************)
MetricKeys == <<"recommendation", "confidence", "position_size", "risk_level">>

\* the slip: the two comparisons in the other order of colours
RecommendationColorSwapped(recommendation) ==
    IF recommendation = PyStr("BUY") THEN "green"
    ELSE IF recommendation = PyStr("SELL") THEN "yellow"
    ELSE "red"

RecommendationColor(recommendation) ==
    IF recommendation = PyStr("BUY") THEN "green"
    ELSE IF recommendation = PyStr("SELL") THEN "red"
    ELSE "yellow"

RiskEmoji(risk_level) ==
    IF risk_level = PyStr("Low") THEN "green"
    ELSE IF risk_level = PyStr("Medium") THEN "yellow"
    ELSE "red"

\* st.metric(label, value): <<label, indicator, text>>
Metric(key, response) ==
    CASE key = "recommendation" ->
           <<"Recommendation", RecommendationColor(response[key]), Format(response[key])>>
      [] key = "confidence" -> <<"Confidence", "", Format(response[key])>>
      [] key = "position_size" -> <<"Position Size", "", Format(response[key])>>
      [] key = "risk_level" ->
           <<"Risk Level", RiskEmoji(response[key]), Format(response[key])>>

\* response[...] raises KeyError at the first missing key: the metrics before it
\* are already on the page
MetricsRendered(response) ==
    Cardinality({ i \in 1..Len(MetricKeys) :
                    \A j \in 1..i : MetricKeys[j] \in DOMAIN response })

NoPanel == [box |-> <<>>, info |-> <<>>, metrics |-> <<>>, raised |-> <<>>, error |-> <<>>]

\* the slip: "if 'suggestion' in response", which shows an empty suggestion
SuggestionShownIfPresent(response) == "suggestion" \in DOMAIN response

\* if response.get('suggestion'):
SuggestionShown(response) == Truthy(Get(response, "suggestion", PyNone))

RenderResponse(response) ==
    IF ~Truthy(Get(response, "success", PyBool(FALSE)))
    THEN [ box |-> <<"error-box", Format(Get(response, "message", PyStr("Query failed")))>>,
           info |-> IF SuggestionShown(response)
                    THEN <<Format(response["suggestion"])>> ELSE <<>>,
           metrics |-> <<>>,
           raised |-> <<>>,
           error |-> <<>> ]
    ELSE [ box |-> <<"success-box", "Analysis Complete">>,
           info |-> <<>>,
           metrics |-> [i \in 1..MetricsRendered(response) |-> Metric(MetricKeys[i], response)],
           raised |-> IF MetricsRendered(response) < Len(MetricKeys)
                         \/ "explanation" \notin DOMAIN response
                      THEN <<"KeyError">> ELSE <<>>,
           error |-> <<>> ]

\* the slip: "except Exception: pass"
CaughtSilently(panel) == panel

\* except Exception as e: st.error(str(e)) and the trace in an expander
Caught(panel) ==
    IF panel.raised = <<>> THEN panel
    ELSE [panel EXCEPT !.error = <<"Error", panel.raised[1], "traceback">>]

(***************************************************************************)
(* The rest of the page below the form: Recent Queries (Chat tab), the     *)
(* Analysis Dashboard and the History tab.  An exception raised here is    *)
(* outside the try block: the script run stops where it is raised.         *)
(***************************************************************************)
RecentCount == 5

\* c['response'].get('success')
Successful(c) == Truthy(Get(c.response, "success", PyNone))

\* the slip: the filter left out, every stored query counted as successful
unfiltered_queries(history) == history

\* [c for c in chat_history if c['response'].get('success')]
successful_queries(history) == SelectSeq(history, Successful)

\* chat_history[-5:]
Recent(history) ==
    SubSeq(history, IF Len(history) > RecentCount THEN Len(history) - RecentCount + 1 ELSE 1,
           Len(history))

RecentRaises(history) ==
    \E i \in 1..Len(Recent(history)) :
        /\ Successful(Recent(history)[i])
        /\ ~({"recommendation", "confidence", "explanation"}
                \subseteq DOMAIN Recent(history)[i].response)

\* f"{len(successful_queries) / len(chat_history) * 100:.1f}", in tenths of a
\* percent: the nearest tenth, a tie going to the even one
success_rate(successful, total) ==
    LET n == 1000 * successful
        q == n \div total
        r == n % total
    IN  IF 2 * r > total \/ (2 * r = total /\ q % 2 = 1) THEN q + 1 ELSE q

\* the distribution and the average index ['recommendation'] and ['confidence']
\* of every successful record
DashboardRaises(history) ==
    \E i \in 1..Len(history) :
        /\ Successful(history[i])
        /\ ~({"recommendation", "confidence"} \subseteq DOMAIN history[i].response)

RowRaises(c) ==
    Successful(c) /\ ~({"recommendation", "confidence"} \subseteq DOMAIN c.response)

Row(c) ==
    [ time |-> strftime(c.timestamp),
      query |-> c.query,
      line |-> IF Successful(c)
               THEN <<"ok", Format(c.response["recommendation"]),
                      Format(c.response["confidence"])>>
               ELSE <<"failed", Format(Get(c.response, "message", PyStr("Failed")))>> ]

\* for chat in reversed(chat_history): the rows rendered before one raises
HistoryRows(history) ==
    LET rev == Reverse(history)
        n == Cardinality({ i \in 1..Len(rev) : \A j \in 1..i : ~RowRaises(rev[j]) })
    IN  [i \in 1..n |-> Row(rev[i])]

\* json.dumps([{"timestamp": ..., "query": ..., "response": ...} for c in chat_history])
history_json(history) ==
    [i \in 1..Len(history) |->
        [ timestamp |-> <<"quoted", isoformat(history[i].timestamp)>>,
          query |-> JsonScalar(PyStr(history[i].query)),
          response |-> JsonObject(history[i].response) ]]

NoTabs ==
    [ success_rate |-> <<>>, dashboard_info |-> FALSE, history_shown |-> FALSE,
      history_rows |-> <<>>, export_button |-> FALSE, export |-> <<>>,
      uncaught |-> <<>> ]

Tabs(history, export_clicked) ==
    IF RecentRaises(history)
    THEN [NoTabs EXCEPT !.uncaught = <<"KeyError">>]
    ELSE IF history = <<>>
    THEN [NoTabs EXCEPT !.dashboard_info = TRUE, !.history_shown = TRUE]
    ELSE LET rate == <<success_rate(Len(successful_queries(history)), Len(history))>>
         IN  IF DashboardRaises(history)
             THEN [NoTabs EXCEPT !.success_rate = rate, !.uncaught = <<"KeyError">>]
             ELSE IF Len(HistoryRows(history)) < Len(history)
             THEN [NoTabs EXCEPT !.success_rate = rate, !.history_shown = TRUE,
                                 !.history_rows = HistoryRows(history),
                                 !.uncaught = <<"KeyError">>]
             ELSE [NoTabs EXCEPT !.success_rate = rate, !.history_shown = TRUE,
                                 !.history_rows = HistoryRows(history),
                                 !.export_button = TRUE,
                                 !.export = IF export_clicked
                                            THEN <<history_json(history)>> ELSE <<>>]

(***************************************************************************)
(* One script run's page.  run names the widget that triggered it; notice  *)
(* is the sidebar's message of the Initialize System button; sys, init and *)
(* history are the session state the page is rendered from; default is     *)
(* current_query as the run found it; form holds the form's submitted      *)
(* text, the run's process_query_sync calls (argument and outcome) and     *)
(* the response panel.                                                     *)
(***************************************************************************)
NoSubmit == [submitted |-> <<>>, backend |-> <<>>, panel |-> NoPanel]

Page(run, notice, sys, init, history, default, form, export_clicked) ==
    [ run |-> run,
      notice |-> notice,
      status |-> IF init /\ sys # <<>> THEN <<sys[1].config>> ELSE <<>>,
      config_json |-> IF run = "view_config" /\ sys # <<>> THEN <<sys[1].config>> ELSE <<>>,
      form_default |-> IF init THEN <<IF default = <<>> THEN "" ELSE default[1]>> ELSE <<>>,
      submitted |-> form.submitted,
      backend |-> form.backend,
      panel |-> form.panel,
      tabs |-> IF init THEN Tabs(history, export_clicked) ELSE NoTabs ]

\* the slip: the default is read and current_query is never deleted
AfterFormKeeps(init, cq) == cq

\* current_query after the main content ran: deleted where the form is built
AfterForm(init, cq) == IF init /\ cq # <<>> /\ cq[1] # "" THEN <<>> ELSE cq

(***************************************************************************)
(* initialize_system and the backend it builds.                            *)
(***************************************************************************)
\* the argument triples of initialize_system: the sidebar's two checkboxes and
\* the collection name
Keys ==
    [ use_qdrant : BOOLEAN, qdrant_local : {TRUE},
      collection_name : {"trading_knowledge"} ]

DefaultKey ==
    [use_qdrant |-> TRUE, qdrant_local |-> TRUE, collection_name |-> "trading_knowledge"]

\* TradingAssistantSystem(): the flags it consumes come from the environment
TradingAssistantSystem(env) ==
    [ config |-> [ use_qdrant |-> env.USE_QDRANT = "true",
                   qdrant_local |-> env.QDRANT_LOCAL = "true" ] ]

\* system.config["qdrant_collection"] = collection_name
Configured(sys, collection_name) ==
    [sys EXCEPT !.config = ("qdrant_collection" :> collection_name) @@ @]

\* st.cache_resource computes one argument triple at a time
Computing(k) == \E t \in Sessions : pc[t] # "idle" /\ init_args[t] = k

\* the Initialize System button's handling of (system, error), and the rest of
\* the script run; st.rerun() starts the next run at once
HandleResult(s, result) ==
    IF Truthy(result.error)
    THEN /\ view' = [view EXCEPT ![s] =
                        Page("init", <<"error", Format(result.error)>>, system[s],
                             initialized[s], chat_history[s], current_query[s],
                             NoSubmit, FALSE)]
         /\ current_query' = [current_query EXCEPT ![s] = AfterForm(initialized[s], @)]
         /\ UNCHANGED <<system, initialized>>
    ELSE /\ system' = [system EXCEPT ![s] = result.system]
         /\ initialized' = [initialized EXCEPT ![s] = TRUE]
         /\ view' = [view EXCEPT ![s] =
                        Page("init", <<"success">>, result.system, TRUE,
                             chat_history[s], current_query[s], NoSubmit, FALSE)]
         /\ current_query' = [current_query EXCEPT ![s] = AfterForm(TRUE, @)]

\* the button is clicked: a cached triple returns at once, another one enters
\* initialize_system and sets USE_QDRANT
ClickInitialize(s, k) ==
    /\ pc[s] = "idle"
    /\ IF cache[k] # <<>>
       THEN /\ HandleResult(s, cache[k][1])
            /\ UNCHANGED <<pc, init_args, environ>>
       ELSE /\ ~Computing(k)
            /\ environ' = [environ EXCEPT !.USE_QDRANT =
                              IF k.use_qdrant THEN "true" ELSE "false"]
            /\ pc' = [pc EXCEPT ![s] = "QDRANT_LOCAL"]
            /\ init_args' = [init_args EXCEPT ![s] = k]
            /\ UNCHANGED <<system, initialized, current_query, view>>
    /\ UNCHANGED <<chat_history, cache, constructed>>

SetQdrantLocal(s) ==
    /\ pc[s] = "QDRANT_LOCAL"
    /\ environ' = [environ EXCEPT !.QDRANT_LOCAL =
                      IF init_args[s].qdrant_local THEN "true" ELSE "false"]
    /\ pc' = [pc EXCEPT ![s] = "construct"]
    /\ UNCHANGED <<system, chat_history, initialized, current_query, init_args,
                   cache, constructed, view>>

\* outcome: <<>> when the construction returns, <<text>> when it raises
Construct(s, outcome) ==
    /\ pc[s] = "construct"
    /\ LET k == init_args[s]
           result ==
               IF outcome = <<>>
               THEN [ system |-> <<Configured(TradingAssistantSystem(environ),
                                              k.collection_name)>>,
                      error |-> PyNone ]
               ELSE [system |-> <<>>, error |-> PyStr(outcome[1])]
       IN  /\ cache' = [cache EXCEPT ![k] = <<result>>]
           /\ constructed' = [constructed EXCEPT ![k] = @ + 1]
           /\ HandleResult(s, result)
    /\ pc' = [pc EXCEPT ![s] = "idle"]
    /\ UNCHANGED <<chat_history, init_args, environ>>

(***************************************************************************)
(* The other widgets.                                                      *)
(***************************************************************************)
ClearChatHistory(s) ==
    /\ pc[s] = "idle"
    /\ chat_history' = [chat_history EXCEPT ![s] = <<>>]
    /\ view' = [view EXCEPT ![s] =
                   Page("clear", <<>>, system[s], initialized[s], <<>>,
                        current_query[s], NoSubmit, FALSE)]
    /\ current_query' = [current_query EXCEPT ![s] = AfterForm(initialized[s], @)]
    /\ UNCHANGED <<system, initialized, pc, init_args, cache, constructed, environ>>

ViewConfiguration(s) ==
    /\ pc[s] = "idle"
    /\ view' = [view EXCEPT ![s] =
                   Page("view_config", <<>>, system[s], initialized[s], chat_history[s],
                        current_query[s], NoSubmit, FALSE)]
    /\ current_query' = [current_query EXCEPT ![s] = AfterForm(initialized[s], @)]
    /\ UNCHANGED <<system, chat_history, initialized, pc, init_args, cache,
                   constructed, environ>>

\* an example button: current_query is set in the sidebar, and the same run's
\* main content reads it
ClickExample(s, query) ==
    /\ pc[s] = "idle"
    /\ view' = [view EXCEPT ![s] =
                   Page("example", <<>>, system[s], initialized[s], chat_history[s],
                        <<query>>, NoSubmit, FALSE)]
    /\ current_query' = [current_query EXCEPT ![s] = AfterForm(initialized[s], <<query>>)]
    /\ UNCHANGED <<system, chat_history, initialized, pc, init_args, cache,
                   constructed, environ>>

(***************************************************************************)
(* The query form.  outcome is what process_query_sync does: <<>> when it  *)
(* raises, <<response>> when it returns; now is datetime.now().            *)
(***************************************************************************)
\* the slip: "if submit_button:", which sends an empty query to the backend
ProcessAlways(user_query) == TRUE

\* if submit_button and user_query:
ShouldProcess(user_query) == user_query # ""

\* the record appended to chat_history
QueryRecord(now, user_query, response) ==
    [timestamp |-> now, query |-> user_query, response |-> response]

SubmitQuery(s, user_query, outcome, now, limit) ==
    /\ pc[s] = "idle"
    /\ initialized[s]
    /\ IF ~ShouldProcess(user_query)
       THEN /\ view' = [view EXCEPT ![s] =
                           Page("submit", <<>>, system[s], TRUE, chat_history[s],
                                current_query[s],
                                [NoSubmit EXCEPT !.submitted = <<user_query>>], FALSE)]
            /\ UNCHANGED chat_history
       ELSE IF system[s] = <<>>
       THEN \* None has no process_query_sync
            /\ view' = [view EXCEPT ![s] =
                           Page("submit", <<>>, system[s], TRUE, chat_history[s],
                                current_query[s],
                                [ submitted |-> <<user_query>>, backend |-> <<>>,
                                  panel |-> Caught([NoPanel EXCEPT
                                                      !.raised = <<"AttributeError">>]) ],
                                FALSE)]
            /\ UNCHANGED chat_history
       ELSE IF outcome = <<>>
       THEN /\ view' = [view EXCEPT ![s] =
                           Page("submit", <<>>, system[s], TRUE, chat_history[s],
                                current_query[s],
                                [ submitted |-> <<user_query>>,
                                  backend |-> <<[query |-> user_query, outcome |-> <<>>]>>,
                                  panel |-> Caught([NoPanel EXCEPT
                                                      !.raised = <<"Exception">>]) ],
                                FALSE)]
            /\ UNCHANGED chat_history
       ELSE /\ Len(chat_history[s]) < limit
            /\ chat_history' = [chat_history EXCEPT ![s] =
                                   Append(@, QueryRecord(now, user_query, outcome[1]))]
            /\ view' = [view EXCEPT ![s] =
                           Page("submit", <<>>, system[s], TRUE, chat_history'[s],
                                current_query[s],
                                [ submitted |-> <<user_query>>,
                                  backend |-> <<[query |-> user_query, outcome |-> outcome]>>,
                                  panel |-> Caught(RenderResponse(outcome[1])) ],
                                FALSE)]
    /\ current_query' = [current_query EXCEPT ![s] = AfterForm(TRUE, @)]
    /\ UNCHANGED <<system, initialized, pc, init_args, cache, constructed, environ>>

\* the Export History as JSON button, which the History tab shows below its rows
ExportHistory(s) ==
    /\ pc[s] = "idle"
    /\ view[s].tabs.export_button
    /\ view' = [view EXCEPT ![s] =
                   Page("export", <<>>, system[s], initialized[s], chat_history[s],
                        current_query[s], NoSubmit, TRUE)]
    /\ current_query' = [current_query EXCEPT ![s] = AfterForm(initialized[s], @)]
    /\ UNCHANGED <<system, chat_history, initialized, pc, init_args, cache,
                   constructed, environ>>

(***************************************************************************)
(* The specifications.                                                     *)
(***************************************************************************)
\* a new session's first script run: init_session_state and the unconfigured page
Init ==
    /\ system = [s \in Sessions |-> <<>>]
    /\ chat_history = [s \in Sessions |-> <<>>]
    /\ initialized = [s \in Sessions |-> FALSE]
    /\ current_query = [s \in Sessions |-> <<>>]
    /\ pc = [s \in Sessions |-> "idle"]
    /\ init_args = [s \in Sessions |-> DefaultKey]
    /\ cache = [k \in Keys |-> <<>>]
    /\ constructed = [k \in Keys |-> 0]
    /\ environ = [USE_QDRANT |-> "unset", QDRANT_LOCAL |-> "unset"]
    /\ view = [s \in Sessions |->
                  Page("start", <<>>, <<>>, FALSE, <<>>, <<>>, NoSubmit, FALSE)]

\* the inputs of the query form: the query, what process_query_sync does with
\* it and the clock; a submission that never reaches the backend or the clock
\* needs no choice of them
Submissions(responses, times) ==
    { <<q, <<>>, CHOOSE t \in times : TRUE>> : q \in Queries }
    \cup { <<q, <<r>>, t>> : q \in Queries \ {""}, r \in responses, t \in times }

\* one script run (or one step of initialize_system) of session s
Step(s, keys, errors, examples, submissions, limit) ==
    \/ \E k \in keys : ClickInitialize(s, k)
    \/ SetQdrantLocal(s)
    \/ \E outcome \in {<<>>} \cup {<<e>> : e \in errors} : Construct(s, outcome)
    \/ ClearChatHistory(s)
    \/ ViewConfiguration(s)
    \/ \E q \in examples : ClickExample(s, q)
    \/ \E in \in submissions : SubmitQuery(s, in[1], in[2], in[3], limit)
    \/ ExportHistory(s)

Examples == { example_queries[i] : i \in 1..Len(example_queries) }

\* responses of every shape the stored history is read for: no success field,
\* a reported failure, a complete analysis, and analyses with a field missing
HistoryResponses ==
    { <<>>,
      [ success |-> PyBool(FALSE), message |-> PyStr("Unknown symbol"),
        suggestion |-> PyStr("Try a ticker symbol") ],
      FullResponse("BUY"),
      Without(FullResponse("BUY"), "position_size"),
      Without(FullResponse("BUY"), "recommendation") }

\* one session: the life of its history
Next ==
    Step(1, {DefaultKey}, ErrorTexts, Examples, Submissions(HistoryResponses, Times),
         MaxHistory)

Spec == Init /\ [][Next]_vars

\* one session: every response the panel can be asked to render
PanelHistory == 1

NextPanel ==
    Step(1, {DefaultKey}, ErrorTexts, Examples,
         Submissions(Responses, {CHOOSE t \in Times : TRUE}), PanelHistory)

SpecPanel == Init /\ [][NextPanel]_vars

\* two sessions of one server process
NextShared ==
    \E s \in Sessions :
        Step(s, Keys, {""}, {example_queries[1]},
             Submissions({FullResponse("BUY")}, {CHOOSE t \in Times : TRUE}),
             PanelHistory)

SpecShared == Init /\ [][NextShared]_vars

(***************************************************************************)
(* The properties.                                                         *)
(***************************************************************************)
\* the response a returned process_query_sync call of the last run gave
Returned(s) == view[s].backend[1].outcome[1]

\* the last script run submitted the form and process_query_sync returned
SubmissionReturned(s) ==
    /\ view[s].run = "submit"
    /\ view[s].backend # <<>>
    /\ view[s].backend[1].outcome # <<>>

ReportsFailure(response) ==
    "success" \notin DOMAIN response \/ response["success"] = PyBool(FALSE)

FourMetrics == {"Recommendation", "Confidence", "Position Size", "Risk Level"}

\* C1: a submission whose response has success false, or no success field, shows
\* the response's message ("Query failed" when there is none), shows the
\* suggestion exactly when there is a non-empty one, and renders none of the
\* metrics Recommendation, Confidence, Position Size, Risk Level.
FailureShowsMessageAndNoMetrics ==
    \A s \in Sessions :
        (SubmissionReturned(s) /\ ReportsFailure(Returned(s))) =>
            LET r == Returned(s)
                panel == view[s].panel
            IN  /\ panel.box =
                      <<"error-box",
                        IF "message" \in DOMAIN r THEN r["message"][2] ELSE "Query failed">>
                /\ (panel.info # <<>>) <=>
                      ("suggestion" \in DOMAIN r /\ r["suggestion"] # PyStr(""))
                /\ panel.info # <<>> => panel.info = <<r["suggestion"][2]>>
                /\ \A i \in 1..Len(panel.metrics) : panel.metrics[i][1] \notin FourMetrics

\* a failure with an empty suggestion and no message has been rendered
FailureWithEmptySuggestionRendered ==
    \E s \in Sessions :
        /\ SubmissionReturned(s)
        /\ ReportsFailure(Returned(s))
        /\ "suggestion" \in DOMAIN Returned(s)
        /\ Returned(s)["suggestion"] = PyStr("")
        /\ "message" \notin DOMAIN Returned(s)
        /\ view[s].panel.box = <<"error-box", "Query failed">>

\* C2: a response with success true and a recommendation of BUY, SELL or HOLD
\* shows the Recommendation metric with green for BUY, red for SELL and yellow
\* for HOLD.
RecommendationIndicatorFollowsMapping ==
    \A s \in Sessions :
        ( /\ SubmissionReturned(s)
          /\ "success" \in DOMAIN Returned(s)
          /\ Returned(s)["success"] = PyBool(TRUE)
          /\ "recommendation" \in DOMAIN Returned(s)
          /\ Returned(s)["recommendation"][2] \in {"BUY", "SELL", "HOLD"} ) =>
            LET rec == Returned(s)["recommendation"][2]
                shown == { m \in { view[s].panel.metrics[i] :
                                     i \in 1..Len(view[s].panel.metrics) } :
                             m[1] = "Recommendation" }
            IN  /\ Cardinality(shown) = 1
                /\ \A m \in shown :
                      /\ m[3] = rec
                      /\ rec = "BUY" => m[2] = "green"
                      /\ rec = "SELL" => m[2] = "red"
                      /\ rec = "HOLD" => m[2] = "yellow"

\* a SELL recommendation has been rendered
SellRendered ==
    \E s \in Sessions :
        /\ SubmissionReturned(s)
        /\ Get(Returned(s), "success", PyNone) = PyBool(TRUE)
        /\ Get(Returned(s), "recommendation", PyNone) = PyStr("SELL")
        /\ Len(view[s].panel.metrics) = 4

\* datetime.fromisoformat, json.loads: what a reader of the export gets back
fromisoformat(text) ==
    [ date |-> text[1], time |-> text[3],
      microsecond |-> IF Len(text) = 3 THEN 0 ELSE text[5] ]

JsonLoads(j) ==
    CASE j[1] = "quoted" -> PyStr(j[2])
      [] j[1] = "number" -> PyInt(j[2])
      [] j[2] = "true" -> PyBool(TRUE)
      [] j[2] = "false" -> PyBool(FALSE)
      [] OTHER -> PyNone

ExportRoundTrips(s) ==
    view[s].tabs.export # <<>> =>
        LET e == view[s].tabs.export[1]
            h == chat_history[s]
        IN  /\ Len(e) = Len(h)
            /\ \A i \in 1..Len(h) :
                  /\ e[i].timestamp[1] = "quoted"
                  /\ fromisoformat(e[i].timestamp[2]) = h[i].timestamp
                  /\ JsonLoads(e[i].query) = PyStr(h[i].query)
                  /\ DOMAIN e[i].response = DOMAIN h[i].response
                  /\ \A k \in DOMAIN h[i].response :
                        JsonLoads(e[i].response[k]) = h[i].response[k]

\* C3: an export is an array with one element per stored record, in stored
\* order; reading an element back gives the record's capture time from its
\* ISO-8601 timestamp and its query and response unchanged; the export leaves
\* chat_history as it was.
ExportRoundTripsAndKeepsHistory ==
    [][ \A s \in Sessions :
            view'[s].run = "export" =>
                /\ chat_history'[s] = chat_history[s]
                /\ view'[s].tabs.export # <<>>
                /\ ExportRoundTrips(s)' ]_vars

\* two records, one of them captured with a fraction of a second, were exported
ExportedTwoRecords ==
    \E s \in Sessions :
        /\ view[s].run = "export"
        /\ view[s].tabs.export # <<>>
        /\ Len(chat_history[s]) = 2
        /\ chat_history[s][1].timestamp.microsecond # 0
        /\ chat_history[s][2].timestamp.microsecond = 0
        /\ chat_history[s][1].response # chat_history[s][2].response

\* the number of stored records whose response.success is truthy
SuccessfulCount(s) ==
    Cardinality({ i \in 1..Len(chat_history[s]) :
                    /\ "success" \in DOMAIN chat_history[s][i].response
                    /\ chat_history[s][i].response["success"] = PyBool(TRUE) })

\* t is successful / total * 100 to the nearest tenth, in tenths of a percent
NearestTenth(t, successful, total) ==
    LET d == 1000 * successful - t * total
    IN  2 * d <= total /\ 2 * (0 - d) <= total

\* the last script run reached the Analysis Dashboard
DashboardRendered(s) ==
    view[s].tabs.dashboard_info \/ view[s].tabs.success_rate # <<>>

\* C4 as stated: wherever the dashboard is rendered, the Success Rate metric is
\* successful_count / total_count * 100 rounded to one decimal, and is 0 when
\* the history is empty.
SuccessRateIsZeroWhenEmpty ==
    \A s \in Sessions :
        DashboardRendered(s) =>
            /\ view[s].tabs.success_rate # <<>>
            /\ IF chat_history[s] = <<>>
               THEN view[s].tabs.success_rate[1] = 0
               ELSE NearestTenth(view[s].tabs.success_rate[1], SuccessfulCount(s),
                                 Len(chat_history[s]))

\* C4 amended: with a stored record, the Success Rate metric is
\* successful_count / total_count * 100 rounded to one decimal; with an empty
\* history the dashboard renders no Success Rate metric, only its notice.
SuccessRateWhenHistory ==
    \A s \in Sessions :
        DashboardRendered(s) =>
            IF chat_history[s] = <<>>
            THEN view[s].tabs.success_rate = <<>> /\ view[s].tabs.dashboard_info
            ELSE /\ view[s].tabs.success_rate # <<>>
                 /\ NearestTenth(view[s].tabs.success_rate[1], SuccessfulCount(s),
                                 Len(chat_history[s]))

\* the dashboard showed 66.7 for two successes and a reported failure
TwoThirdsSuccessful ==
    \E s \in Sessions :
        /\ Len(chat_history[s]) = 3
        /\ SuccessfulCount(s) = 2
        /\ \E i \in 1..3 : Get(chat_history[s][i].response, "success", PyNone) = PyBool(FALSE)
        /\ view[s].tabs.success_rate = <<667>>

\* history grew by exactly one record, appended at the end
AppendedOne(old, new) ==
    Len(new) = Len(old) + 1 /\ SubSeq(new, 1, Len(old)) = old

\* C5: a submission with a non-empty query whose process_query_sync call
\* returns appends exactly one record holding the submitted query and the
\* returned response, whatever success is and whether or not rendering the
\* response raises; a submission with an empty query appends nothing and does
\* not call the backend.
RecordOnEachReturnedSubmission ==
    [][ \A s \in Sessions :
            view'[s].run = "submit" =>
                LET q == view'[s].submitted[1]
                    calls == view'[s].backend
                    old == chat_history[s]
                    new == chat_history'[s]
                IN  /\ q = "" => calls = <<>> /\ new = old
                    /\ Len(calls) <= 1
                    /\ (calls # <<>> /\ calls[1].outcome # <<>>) =>
                          /\ q # ""
                          /\ calls[1].query = q
                          /\ AppendedOne(old, new)
                          /\ new[Len(new)].query = q
                          /\ new[Len(new)].response = calls[1].outcome[1]
                          /\ new[Len(new)].timestamp \in Times ]_vars

\* a second record was stored by a submission whose rendering raised
StoredThoughRenderingRaised ==
    \E s \in Sessions :
        /\ SubmissionReturned(s)
        /\ view[s].panel.raised = <<"KeyError">>
        /\ Len(chat_history[s]) = 2
        /\ chat_history[s][2].response = Returned(s)
        /\ chat_history[s][2].query = view[s].submitted[1]

\* C6: every step leaves chat_history unchanged, appends one record at its end,
\* or (Clear Chat History) empties it; and what the History tab displays is
\* all stored records, most recent first.
AppendOnlyAndShownNewestFirst ==
    [][ \A s \in Sessions :
            LET old == chat_history[s]
                new == chat_history'[s]
                rows == view'[s].tabs.history_rows
            IN  /\ \/ new = old
                   \/ AppendedOne(old, new)
                   \/ new = <<>> /\ view'[s].run = "clear"
                /\ (view'[s].tabs.history_shown /\ view'[s].tabs.uncaught = <<>>) =>
                      /\ Len(rows) = Len(new)
                      /\ \A i \in 1..Len(new) :
                            rows[i] = Row(new[Len(new) + 1 - i]) ]_vars

\* the History tab showed a failure stored after a BUY, the failure first
TwoRowsShown ==
    \E s \in Sessions :
        /\ Len(chat_history[s]) = 2
        /\ Successful(chat_history[s][1])
        /\ ~Successful(chat_history[s][2])
        /\ Len(view[s].tabs.history_rows) = 2
        /\ view[s].tabs.history_rows[1].line[1] = "failed"

\* C7: when process_query_sync raises, the exception is caught and shown as an
\* error with its trace, the backend is not called again in that run, no
\* record is appended, chat_history, initialized and system stay as they were,
\* and the session is ready for the next submission.
RaisedCallLeavesSessionUnchanged ==
    [][ \A s \in Sessions :
            ( /\ view'[s].run = "submit"
              /\ view'[s].backend # <<>>
              /\ view'[s].backend[1].outcome = <<>> ) =>
                /\ Len(view'[s].backend) = 1
                /\ view'[s].panel.error = <<"Error", "Exception", "traceback">>
                /\ chat_history'[s] = chat_history[s]
                /\ initialized'[s] = initialized[s]
                /\ system'[s] = system[s]
                /\ initialized'[s] /\ pc'[s] = "idle" ]_vars

\* a call raised while a record was stored
CallRaisedWithHistory ==
    \E s \in Sessions :
        /\ view[s].run = "submit"
        /\ view[s].backend # <<>>
        /\ view[s].backend[1].outcome = <<>>
        /\ chat_history[s] # <<>>

\* C9 as stated: initialized implies a backend that a completed initialization
\* produced, whatever initialize_system returned.
InitializedImpliesSystem ==
    \A s \in Sessions : initialized[s] => system[s] # <<>>

\* C10: an example is stored by its button and consumed by the first script
\* run with initialized true, which uses it as the form's default and deletes
\* it: after a completed run with initialized true current_query is absent,
\* with initialized false it stays stored; a non-empty default is always a
\* query stored until that run; selecting an example neither calls the backend
\* nor changes chat_history.
ExampleConsumedOnce ==
    [][ \A s \in Sessions :
            /\ (initialized'[s] /\ pc'[s] = "idle") => current_query'[s] = <<>>
            /\ (~initialized'[s] /\ current_query[s] # <<>>) => current_query'[s] # <<>>
            /\ (initialized'[s] /\ pc'[s] = "idle" /\ current_query[s] # <<>>) =>
                  view'[s].form_default = current_query[s]
            /\ view'[s].run = "example" =>
                  /\ chat_history'[s] = chat_history[s]
                  /\ view'[s].backend = <<>>
                  /\ IF initialized[s]
                     THEN view'[s].form_default[1] \in Examples
                     ELSE current_query'[s] # <<>> /\ current_query'[s][1] \in Examples
            /\ (view'[s] # view[s] /\ view'[s].form_default \notin {<<>>, <<"">>}) =>
                  \/ view'[s].form_default = current_query[s]
                  \/ view'[s].run = "example" ]_vars

\* an example stored before initialization became the form's default in the
\* first run after it
StoredExampleConsumedAfterInit ==
    \E s \in Sessions :
        /\ view[s].run = "init"
        /\ initialized[s]
        /\ view[s].form_default = <<example_queries[1]>>
        /\ current_query[s] = <<>>

\* the session state that belongs to session s alone
Private(s) == <<system[s], chat_history[s], initialized[s], current_query[s], view[s]>>

\* C8 as stated: a step of one session changes no other session's state, a
\* cached triple is never computed again, and nothing that a session's running
\* initialization reads is changed by another session.
SessionsShareOnlyTheCache ==
    [][ /\ \A s, t \in Sessions :
              s # t => Private(s)' = Private(s) \/ Private(t)' = Private(t)
        /\ \A k \in Keys :
              cache[k] # <<>> => cache'[k] = cache[k] /\ constructed'[k] = constructed[k]
        /\ \A s \in Sessions :
              (pc[s] # "idle" /\ pc'[s] = pc[s]) => environ' = environ ]_vars

====
